---- MODULE Spec2Model ----
(***************************************************************************)
(* A model of py-ctcmetrics: the metric reducers bio and seg, the track    *)
(* table validator valid, the sequence matcher                             *)
(* match_computed_to_reference_masks and the drivers evaluate_sequence,    *)
(* evaluate_all and main of scripts/evaluate.py.                           *)
(*                                                                         *)
(* Numbers.  A metric value or an IoU value is a rational in [0,1]; it is  *)
(* kept as an integer count of a fixed unit (k stands for k/Scale, or      *)
(* k/IoUScale).  A quotient the code computes with "/" is kept as the pair *)
(* <<numerator, denominator>> and compared by cross multiplication.        *)
(* Python's None is the empty tuple, a present value v the 1-tuple <<v>>.  *)
(* A call's outcome is a record whose field kind is "return" or the name   *)
(* of the exception the call raises.                                       *)
(***************************************************************************)
EXTENDS Integers, Sequences, FiniteSets, TLC

\* ---------------------------------------------------------------- bounds
\* Metric values are 0/Scale .. Scale/Scale.
Scale == 2
\* IoU values handed to seg are 0/IoUScale .. IoUScale/IoUScale.
IoUScale == 2
\* Frames of a seg input.
MaxSegFrames == 2
\* Labels 1..MaxLabel may occur in a frame of a seg input.
MaxLabel == 2
\* Mask files of a valid input, and rows of its track table.
MaxValidFrames == 2
MaxRows == 2
\* Mask files of a sequence handed to the sequence matcher.
MaxFrames == 2
\* Sequences of a batch handed to evaluate_all.
MaxSeqs == 2

\* --------------------------------------------------------------- helpers
None == <<>>

Some(v) == <<v>>

Max(a, b) == IF a >= b THEN a ELSE b

Min(a, b) == IF a <= b THEN a ELSE b

RECURSIVE SumSeq(_)
SumSeq(s) == IF s = <<>> THEN 0 ELSE Head(s) + SumSeq(Tail(s))

\* np.concatenate on a non-empty list of 1-d arrays.
RECURSIVE Concatenate(_)
Concatenate(ss) == IF ss = <<>> THEN <<>> ELSE Head(ss) \o Concatenate(Tail(ss))

\* The elements of a finite set of integers in increasing order.
RECURSIVE SortedSeq(_)
SortedSeq(S) ==
    IF S = {} THEN <<>>
    ELSE LET m == CHOOSE x \in S : \A y \in S : x <= y
         IN  <<m>> \o SortedSeq(S \ {m})

Range(s) == {s[i] : i \in DOMAIN s}

\* All sequences over S of length at most n.
SeqsUpTo(S, n) == UNION {[1..k -> S] : k \in 0..n}

VARIABLES
    \* bio: the four arguments and the call's outcome
    ct, tf, bc, cca, bio_score,
    \* seg: the two arguments and the call's outcome
    labels_ref, intersection_over_unions, seg_ret,
    \* valid: the three arguments and the call's outcome
    masks, tracks, labels_in_frames, valid_ret,
    \* match_computed_to_reference_masks: the three arguments, the position in
    \* the function, the pool's unfinished tasks, the results of the finished
    \* ones in the order they finished, the list matches and the outcome
    ref_masks, comp_masks, multiprocessing, match_pc, tasks, arrived, matches,
    match_ret,
    \* scripts/evaluate.py: the parsed arguments, the sequence directories they
    \* name, main's metrics and res, main's position, evaluate_all's loop
    \* index and results, evaluate_sequence's position and its locals metrics,
    \* traj, segm, graph_operations and results, and the exception raised
    args, dirs, metrics, res, main_pc, seq_idx, all_results, pc, seq_metrics,
    traj, segm, graph_operations, results, error

bioVars == <<ct, tf, bc, cca, bio_score>>

segVars == <<labels_ref, intersection_over_unions, seg_ret>>

validVars == <<masks, tracks, labels_in_frames, valid_ret>>

matchVars == <<ref_masks, comp_masks, multiprocessing, match_pc, tasks, arrived,
               matches, match_ret>>

evalVars == <<args, dirs, metrics, res, main_pc, seq_idx, all_results, pc,
              seq_metrics, traj, segm, graph_operations, results, error>>

vars == <<bioVars, segVars, validVars, matchVars, evalVars>>

\* A call that has not been made yet.
NotCalled == [kind |-> "not called"]

\* ------------------------------------------------------------------- bio
\* bio with every absent sub-metric still counted in the denominator.
bioCountsAll(ct_, tf_, bc_, cca_) ==
    LET v(x) == IF x # None THEN x[1] ELSE 0
    IN  [kind |-> "return", num |-> v(ct_) + v(tf_) + v(bc_) + v(cca_), den |-> 4]

bio(ct_, tf_, bc_, cca_) ==
    LET t1  == IF ct_ # None THEN 1 ELSE 0
        ct1 == IF ct_ # None THEN ct_[1] ELSE 0
        t2  == IF tf_ # None THEN t1 + 1 ELSE t1
        tf1 == IF tf_ # None THEN tf_[1] ELSE 0
        t3  == IF bc_ # None THEN t2 + 1 ELSE t2
        bc1 == IF bc_ # None THEN bc_[1] ELSE 0
        total_metrics == IF cca_ # None THEN t3 + 1 ELSE t3
        cca1 == IF cca_ # None THEN cca_[1] ELSE 0
    IN  IF total_metrics = 0
        THEN [kind |-> "ZeroDivisionError"]
        ELSE [kind |-> "return", num |-> ct1 + tf1 + bc1 + cca1, den |-> total_metrics]

MetricValues == {None} \cup {Some(v) : v \in 0..Scale}

BioIdle ==
    /\ ct = None /\ tf = None /\ bc = None /\ cca = None
    /\ bio_score = NotCalled

BioInit ==
    /\ ct \in MetricValues /\ tf \in MetricValues
    /\ bc \in MetricValues /\ cca \in MetricValues
    /\ bio_score = NotCalled

BioCall ==
    /\ bio_score = NotCalled
    /\ bio_score' = bio(ct, tf, bc, cca)
    /\ UNCHANGED <<ct, tf, bc, cca>>
    /\ UNCHANGED <<segVars, validVars, matchVars, evalVars>>

\* ------------------------------------------------------------------- seg
\* seg_measure is <<total_intersection, max(number_of_reference_labels, 1)>>,
\* the numerator in the unit of the IoU values given.
seg(labels_ref_, intersection_over_unions_) ==
    LET number_of_reference_labels ==
            SumSeq([i \in DOMAIN labels_ref_ |-> Len(labels_ref_[i])])
    IN  IF Len(intersection_over_unions_) = 0
        THEN \* np.concatenate([]): "need at least one array to concatenate"
             [kind |-> "ValueError"]
        ELSE LET concatenated == Concatenate(intersection_over_unions_)
                 true_positives == Len(concatenated)
                 false_negatives == number_of_reference_labels - true_positives
                 total_intersection == SumSeq(concatenated)
             IN  [kind |-> "return",
                  seg_measure |-> <<total_intersection,
                                    Max(number_of_reference_labels, 1)>>,
                  true_positives |-> true_positives,
                  false_negatives |-> false_negatives]

\* The label lists of one frame: the labels present, in increasing order.
LabelLists == {SortedSeq(S) : S \in SUBSET (1..MaxLabel)}

\* The sequence matcher hands seg one list of labels and one list of IoU
\* values per frame, an IoU value for each matched reference label.
SegInit ==
    /\ \E n \in 0..MaxSegFrames :
          /\ labels_ref \in [1..n -> LabelLists]
          /\ intersection_over_unions \in [1..n -> SeqsUpTo(0..IoUScale, MaxLabel)]
    /\ \A f \in DOMAIN labels_ref :
          Len(intersection_over_unions[f]) <= Len(labels_ref[f])
    /\ seg_ret = NotCalled

SegIdle ==
    /\ labels_ref = <<>> /\ intersection_over_unions = <<>>
    /\ seg_ret = NotCalled

SegCall ==
    /\ seg_ret = NotCalled
    /\ seg_ret' = seg(labels_ref, intersection_over_unions)
    /\ UNCHANGED <<labels_ref, intersection_over_unions>>
    /\ UNCHANGED <<bioVars, validVars, matchVars, evalVars>>

\* ----------------------------------------------------------------- valid
\* A track row is <<label, birth, end, parent>>.
Label(track) == track[1]

Birth(track) == track[2]

End(track) == track[3]

Parent(track) == track[4]

\* np.argwhere(tracks[:, 0] == parent): the rows whose label is parent.
ParentIdx(tracks_, parent) == {j \in DOMAIN tracks_ : Label(tracks_[j]) = parent}

\* frames[k] of valid, as a set: the labels of the rows whose span
\* birth..end holds frame k - 1.
FrameLabels(tracks_, k) ==
    {Label(tracks_[i]) : i \in {j \in DOMAIN tracks_ :
                                   Birth(tracks_[j]) <= k - 1 /\ k - 1 <= End(tracks_[j])}}

\* The warnings valid issues for a table that passes its assertion and
\* whose spans index existing frames.
ValidWarnings(masks_, tracks_, labels_in_frames_) ==
    LET n == Min(Len(labels_in_frames_), Len(masks_))
    IN  {w \in {"Invalid parent", "Labels are not unique",
                "Parent ends after child starts", "Some labels are not used",
                "Label in mask but not in res_track",
                "Label in res_track but not in mask", "Empty frame"} :
           \/ /\ w = "Invalid parent"
              /\ \E i \in DOMAIN tracks_ : Parent(tracks_[i]) < 0
           \/ /\ w = "Labels are not unique"
              /\ Cardinality({Label(tracks_[i]) : i \in DOMAIN tracks_}) # Len(tracks_)
           \/ /\ w = "Parent ends after child starts"
              /\ \E i \in DOMAIN tracks_ :
                    /\ Parent(tracks_[i]) # 0
                    /\ \E j \in ParentIdx(tracks_, Parent(tracks_[i])) :
                          End(tracks_[j]) >= Birth(tracks_[i])
           \/ /\ w = "Some labels are not used"
              /\ \E i \in DOMAIN tracks_ :
                    /\ \A j \in DOMAIN tracks_ : Label(tracks_[j]) <= Label(tracks_[i])
                    /\ Label(tracks_[i]) # Len(tracks_)
           \/ /\ w = "Label in mask but not in res_track"
              /\ \E k \in 1..n : \E label \in Range(labels_in_frames_[k]) :
                    label # 0 /\ label \notin FrameLabels(tracks_, k)
           \/ /\ w = "Label in res_track but not in mask"
              /\ \E k \in 1..n : \E label \in FrameLabels(tracks_, k) :
                    label \notin Range(labels_in_frames_[k])
           \/ /\ w = "Empty frame"
              /\ \E k \in 1..Len(masks_) : FrameLabels(tracks_, k) = {}}

\* The warnings after which is_valid is 0.
Invalidating ==
    {"Invalid parent", "Labels are not unique", "Parent ends after child starts",
     "Label in mask but not in res_track", "Label in res_track but not in mask"}

valid(masks_, tracks_, labels_in_frames_) ==
    IF \E i \in DOMAIN tracks_ :
          /\ Parent(tracks_[i]) # 0
          /\ Cardinality(ParentIdx(tracks_, Parent(tracks_[i]))) # 1
    THEN \* assert parent_idx.size == 1
         [kind |-> "AssertionError"]
    ELSE IF Len(tracks_) = 0
    THEN \* max(labels): "max() arg is an empty sequence"
         [kind |-> "ValueError"]
    ELSE IF \E i \in DOMAIN tracks_ :
               \E frame \in Birth(tracks_[i])..End(tracks_[i]) :
                   frame >= Len(masks_) \/ frame < 0 - Len(masks_)
    THEN \* frames[frame].append(label)
         [kind |-> "IndexError"]
    ELSE LET warnings == ValidWarnings(masks_, tracks_, labels_in_frames_)
         IN  [kind |-> "return",
              is_valid |-> IF warnings \cap Invalidating # {} THEN 0 ELSE 1,
              warnings |-> warnings]

\* A mask file, as far as valid reads it: valid takes only the number of files.
MaskFile == <<0, 0>>

TrackRows(nframes) ==
    {<<l, b, e, p>> : l \in {-1} \cup 1..MaxLabel, b \in 0..(nframes - 1),
                      e \in 0..(nframes - 1), p \in {-1, 0} \cup 1..MaxLabel}

LabelLists0 == {SortedSeq(S) : S \in SUBSET (0..MaxLabel)}

ValidInit ==
    /\ \E n \in 1..MaxValidFrames :
          /\ masks = [k \in 1..n |-> MaskFile]
          /\ tracks \in SeqsUpTo(TrackRows(n), MaxRows)
          /\ labels_in_frames \in [1..n -> LabelLists0]
    /\ valid_ret = NotCalled

ValidIdle ==
    /\ masks = <<>> /\ tracks = <<>> /\ labels_in_frames = <<>>
    /\ valid_ret = NotCalled

ValidCall ==
    /\ valid_ret = NotCalled
    /\ valid_ret' = valid(masks, tracks, labels_in_frames)
    /\ UNCHANGED <<masks, tracks, labels_in_frames>>
    /\ UNCHANGED <<bioVars, segVars, matchVars, evalVars>>

\* ------------------------------------------------- the per-frame matcher
\* A mask is the tuple of its pixels' labels, 0 the background.  The masks
\* the model reads: empty, one cell, two cells, one cell on half the image.
Blank == <<0, 0>>

Masks == {Blank, <<1, 1>>, <<1, 2>>, <<0, 1>>}

\* An IoU value of the matcher is a multiple of 1/IoUUnit: the union of two
\* labels has at most as many pixels as a mask.
IoUUnit == Len(Blank)

MaskLabels(mask) == SortedSeq(Range(mask) \ {0})

Intersection(ref, comp, r, c) ==
    Cardinality({p \in DOMAIN ref : ref[p] = r /\ comp[p] = c})

Union(ref, comp, r, c) ==
    Cardinality({p \in DOMAIN ref : ref[p] = r \/ comp[p] = c})

IoU(ref, comp, r, c) ==
    (Intersection(ref, comp, r, c) * IoUUnit) \div Union(ref, comp, r, c)

\* The computed label of maximal IoU with reference label r, the lowest
\* label on a tie; {} when no computed label overlaps r.
BestMatch(ref, comp, r) ==
    LET cands == {c \in Range(comp) \ {0} : Intersection(ref, comp, r, c) > 0}
    IN  {c \in cands : \A d \in cands :
            \/ IoU(ref, comp, r, c) > IoU(ref, comp, r, d)
            \/ IoU(ref, comp, r, c) = IoU(ref, comp, r, d) /\ c <= d}

\* match of utils/representations: <<labels_ref, labels_comp, mapped_ref,
\* mapped_comp, ious>> of one frame pair.
match_tracks(ref, comp) ==
    LET labels_ref_ == MaskLabels(ref)
        matched == SelectSeq(labels_ref_, LAMBDA r : BestMatch(ref, comp, r) # {})
        best(r) == CHOOSE c \in BestMatch(ref, comp, r) : TRUE
    IN  <<labels_ref_,
          MaskLabels(comp),
          matched,
          [i \in DOMAIN matched |-> best(matched[i])],
          [i \in DOMAIN matched |-> IoU(ref, comp, matched[i], best(matched[i]))]>>

\* ----------------------------------- match_computed_to_reference_masks
\* zip(ref_masks, comp_masks): the pairs up to the shorter argument's length.
Zip(ref_masks_, comp_masks_) ==
    [i \in 1..Min(Len(ref_masks_), Len(comp_masks_)) |->
        <<ref_masks_[i], comp_masks_[i]>>]

\* The loop over matches and the dictionary returned.
Collect(matches_) ==
    [labels_ref  |-> [i \in DOMAIN matches_ |-> matches_[i][1]],
     labels_comp |-> [i \in DOMAIN matches_ |-> matches_[i][2]],
     mapped_ref  |-> [i \in DOMAIN matches_ |-> matches_[i][3]],
     mapped_comp |-> [i \in DOMAIN matches_ |-> matches_[i][4]],
     ious        |-> [i \in DOMAIN matches_ |-> matches_[i][5]]]

\* The list a pool returns in the order its tasks finished.
StarmapInArrivalOrder(arrived_) == [k \in DOMAIN arrived_ |-> arrived_[k][2]]

\* p.starmap: the list of the tasks' results in the order of the tasks,
\* whatever the order they finished in.
Starmap(arrived_) ==
    [i \in 1..Len(arrived_) |->
        arrived_[CHOOSE k \in DOMAIN arrived_ : arrived_[k][1] = i][2]]

\* The whole function, as its callers see it.
match_computed_to_reference_masks(ref_masks_, comp_masks_) ==
    LET pairs == Zip(ref_masks_, comp_masks_)
    IN  Collect([i \in DOMAIN pairs |-> match_tracks(pairs[i][1], pairs[i][2])])

MatchInit ==
    /\ ref_masks \in SeqsUpTo(Masks, MaxFrames)
    /\ comp_masks \in SeqsUpTo(Masks, MaxFrames)
    /\ multiprocessing \in BOOLEAN
    /\ match_pc = "start"
    /\ tasks = {}
    /\ arrived = <<>>
    /\ matches = <<>>
    /\ match_ret = NotCalled

MatchIdle ==
    /\ ref_masks = <<>> /\ comp_masks = <<>> /\ multiprocessing = FALSE
    /\ match_pc = "idle" /\ tasks = {} /\ arrived = <<>> /\ matches = <<>>
    /\ match_ret = NotCalled

\* with Pool(cpu_count()) as p: the tasks of starmap are handed out.
PoolSubmit ==
    /\ match_pc = "start" /\ multiprocessing
    /\ tasks' = DOMAIN Zip(ref_masks, comp_masks)
    /\ match_pc' = "pool"
    /\ UNCHANGED <<ref_masks, comp_masks, multiprocessing, arrived, matches, match_ret>>
    /\ UNCHANGED <<bioVars, segVars, validVars, evalVars>>

\* A worker finishes one of the unfinished tasks, any of them.
WorkerFinish ==
    /\ match_pc = "pool"
    /\ \E i \in tasks :
          /\ arrived' = Append(arrived, <<i, match_tracks(ref_masks[i], comp_masks[i])>>)
          /\ tasks' = tasks \ {i}
    /\ UNCHANGED <<ref_masks, comp_masks, multiprocessing, match_pc, matches, match_ret>>
    /\ UNCHANGED <<bioVars, segVars, validVars, evalVars>>

\* starmap returns once every task has finished.
PoolReturn ==
    /\ match_pc = "pool" /\ tasks = {}
    /\ matches' = Starmap(arrived)
    /\ match_pc' = "collect"
    /\ UNCHANGED <<ref_masks, comp_masks, multiprocessing, tasks, arrived, match_ret>>
    /\ UNCHANGED <<bioVars, segVars, validVars, evalVars>>

\* matches = [match_tracks(*x) for x in zip(ref_masks, comp_masks)]
Sequential ==
    /\ match_pc = "start" /\ ~multiprocessing
    /\ LET pairs == Zip(ref_masks, comp_masks)
       IN  matches' = [i \in DOMAIN pairs |-> match_tracks(pairs[i][1], pairs[i][2])]
    /\ match_pc' = "collect"
    /\ UNCHANGED <<ref_masks, comp_masks, multiprocessing, tasks, arrived, match_ret>>
    /\ UNCHANGED <<bioVars, segVars, validVars, evalVars>>

MatchReturn ==
    /\ match_pc = "collect"
    /\ match_ret' = [kind |-> "return", value |-> Collect(matches)]
    /\ match_pc' = "done"
    /\ UNCHANGED <<ref_masks, comp_masks, multiprocessing, tasks, arrived, matches>>
    /\ UNCHANGED <<bioVars, segVars, validVars, evalVars>>

\* --------------------------------------------- the graph correction counter
\* count_acyclic_graph_correction_operations: a label of a frame's
\* correspondence that its track table does not hold is a fatal consistency
\* error; otherwise the operation counts, which the model does not read.
count_acyclic_graph_correction_operations(ref_tracks_, comp_tracks_, labels_ref_, labels_comp_) ==
    IF \/ \E f \in DOMAIN labels_ref_ : \E l \in Range(labels_ref_[f]) :
             l \notin {Label(ref_tracks_[i]) : i \in DOMAIN ref_tracks_}
       \/ \E f \in DOMAIN labels_comp_ : \E l \in Range(labels_comp_[f]) :
             l \notin {Label(comp_tracks_[i]) : i \in DOMAIN comp_tracks_}
    THEN [kind |-> "ConsistencyError"]
    ELSE [kind |-> "return", value |-> [operations |-> "counted"]]

\* det, tra, ct, tf, bc, cca: closed-form reducers; the model keeps only
\* that a score was computed.
Score == "score"

\* ------------------------------------------------------ scripts/evaluate.py
MetricOrder == <<"Valid", "DET", "SEG", "TRA", "CT", "TF", "BC", "CCA">>

\* range(6) of the loop over BC's tolerance
BCRange == 6

BCNames == <<"BC(0)", "BC(1)", "BC(2)", "BC(3)", "BC(4)", "BC(5)">>

\* A dictionary is a function on its keys, {} the function on no key.
EmptyDict == [k \in {} |-> k]

\* The skip of the matching whenever CCA is among the requested metrics.
NeedsTrajUnlessCCA(metrics_) == "CCA" \notin Range(metrics_)

\* sorted(metrics) != ["CCA"]: a list sorts to the one-element list ["CCA"]
\* exactly when it is that list.
NeedsTraj(metrics_) == metrics_ # <<"CCA">>

\* The sequence directories the model reads.  name is the sequence's name,
\* comp_masks the files of res, ref_tra_masks those of gt/TRA, ref_seg_masks
\* those of gt/SEG with the frame number of their file name, comp_tracks
\* res_track.txt and ref_tracks man_track.txt.
GoodDir ==
    [name |-> "good",
     comp_masks |-> <<(<<1, 1>>), (<<1, 2>>)>>,
     ref_tra_masks |-> <<(<<1, 1>>), (<<1, 2>>)>>,
     ref_seg_masks |-> <<[frame |-> 0, mask |-> <<1, 1>>]>>,
     comp_tracks |-> <<(<<1, 0, 1, 0>>), (<<2, 1, 1, 0>>)>>,
     ref_tracks |-> <<(<<1, 0, 1, 0>>), (<<2, 1, 1, 0>>)>>]

\* one result mask fewer than reference masks
ShortDir == [GoodDir EXCEPT !.name = "short", !.comp_masks = <<(<<1, 1>>)>>]

\* man_track.txt holds label 2 twice
DuplicateRefDir ==
    [GoodDir EXCEPT !.name = "duplicate",
                    !.ref_tracks = <<(<<1, 0, 1, 0>>), (<<2, 1, 1, 0>>), (<<2, 1, 1, 0>>)>>]

\* gt/SEG holds no mask
NoSegDir == [GoodDir EXCEPT !.name = "noseg", !.ref_seg_masks = <<>>]

\* a result without any cell: blank masks and an empty res_track.txt
EmptyResultDir ==
    [GoodDir EXCEPT !.name = "empty", !.comp_masks = <<Blank, Blank>>,
                    !.comp_tracks = <<>>]

\* no mask at all
NoMaskDir ==
    [GoodDir EXCEPT !.name = "nomask", !.comp_masks = <<>>, !.ref_tra_masks = <<>>,
                    !.ref_seg_masks = <<>>]

Dirs == {GoodDir, ShortDir, DuplicateRefDir, NoSegDir, EmptyResultDir, NoMaskDir}

EvalLocalsReset ==
    /\ seq_metrics = <<>> /\ traj = EmptyDict /\ segm = EmptyDict
    /\ graph_operations = EmptyDict /\ results = EmptyDict

EvalIdle ==
    /\ args = [flags |-> {}, recursive |-> FALSE]
    /\ dirs = <<>> /\ metrics = None /\ res = None
    /\ main_pc = "idle" /\ seq_idx = 0 /\ all_results = <<>> /\ pc = "idle"
    /\ EvalLocalsReset
    /\ error = None

\* python evaluate.py --res R --gt G [--valid] ... [--cca]
SeqInit ==
    /\ args \in [flags : SUBSET Range(MetricOrder), recursive : {FALSE}]
    /\ dirs \in [1..1 -> Dirs]
    /\ metrics = None /\ res = None
    /\ main_pc = "start" /\ seq_idx = 0 /\ all_results = <<>> /\ pc = "idle"
    /\ EvalLocalsReset
    /\ error = None

\* python evaluate.py --res R --gt G -r [--valid] ... [--cca]
AllInit ==
    /\ args \in [flags : SUBSET Range(MetricOrder), recursive : {TRUE}]
    /\ dirs \in SeqsUpTo(Dirs, MaxSeqs)
    \* a directory holds a sequence name once
    /\ \A i, j \in DOMAIN dirs : i # j => dirs[i].name # dirs[j].name
    /\ metrics = None /\ res = None
    /\ main_pc = "start" /\ seq_idx = 0 /\ all_results = <<>> /\ pc = "idle"
    /\ EvalLocalsReset
    /\ error = None

OthersUnchanged == UNCHANGED <<bioVars, segVars, validVars, matchVars>>

\* No function of the script catches an exception: it ends the run.
Raise(e) ==
    /\ error' = Some(e)
    /\ pc' = "raised"
    /\ main_pc' = "raised"
    /\ UNCHANGED <<args, dirs, metrics, res, seq_idx, all_results, seq_metrics>>

\* evaluate_sequence goes on to its next statement.
Goto(next) ==
    /\ pc' = next
    /\ UNCHANGED <<args, dirs, metrics, res, main_pc, seq_idx, all_results,
                   seq_metrics, error>>

\* main: the metric selection and the call of evaluate_all or evaluate_sequence
Main ==
    /\ main_pc = "start"
    /\ LET selected == SelectSeq(MetricOrder, LAMBDA m : m \in args.flags)
       IN  metrics' = IF selected # <<>> THEN Some(selected) ELSE None
    /\ seq_idx' = 1
    /\ IF args.recursive
       THEN main_pc' = "evaluate_all" /\ pc' = "idle"
       ELSE main_pc' = "evaluate_sequence" /\ pc' = "enter"
    /\ UNCHANGED <<args, dirs, res, all_results, seq_metrics, traj, segm,
                   graph_operations, results, error>>
    /\ OthersUnchanged

\* evaluate_all: the head of the loop over the sequences
EvaluateAllLoop ==
    /\ main_pc = "evaluate_all" /\ pc = "idle"
    /\ IF seq_idx <= Len(dirs)
       THEN pc' = "enter" /\ UNCHANGED <<res, main_pc>>
       ELSE res' = Some(all_results) /\ main_pc' = "returned" /\ UNCHANGED pc
    /\ UNCHANGED <<args, dirs, metrics, seq_idx, all_results, seq_metrics, traj,
                   segm, graph_operations, results, error>>
    /\ OthersUnchanged

\* evaluate_all: results.append([name, evaluate_sequence(res, gt, metrics)])
EvaluateAllAppend ==
    /\ main_pc = "evaluate_all" /\ pc = "return"
    /\ all_results' = Append(all_results, <<dirs[seq_idx].name, results>>)
    /\ seq_idx' = seq_idx + 1
    /\ pc' = "idle"
    /\ UNCHANGED <<args, dirs, metrics, res, main_pc, seq_metrics, traj, segm,
                   graph_operations, results, error>>
    /\ OthersUnchanged

\* main: res = evaluate_sequence(res=args.res, gt=args.gt, metrics=metrics)
MainSequenceReturns ==
    /\ main_pc = "evaluate_sequence" /\ pc = "return"
    /\ res' = Some(results)
    /\ main_pc' = "returned"
    /\ UNCHANGED <<args, dirs, metrics, seq_idx, all_results, pc, seq_metrics,
                   traj, segm, graph_operations, results, error>>
    /\ OthersUnchanged

\* evaluate_sequence: the default of metrics
EvalEnter ==
    /\ pc = "enter"
    /\ seq_metrics' = IF metrics = None THEN MetricOrder ELSE metrics[1]
    /\ traj' = EmptyDict /\ segm' = EmptyDict
    /\ graph_operations' = EmptyDict /\ results' = EmptyDict
    /\ pc' = "read"
    /\ UNCHANGED <<args, dirs, metrics, res, main_pc, seq_idx, all_results, error>>
    /\ OthersUnchanged

\* evaluate_sequence: the files are read and the two assertions made
ReadAndAssert ==
    /\ pc = "read"
    /\ IF \/ ~(Len(dirs[seq_idx].ref_tra_masks) > 0)
          \/ Len(dirs[seq_idx].ref_tra_masks) # Len(dirs[seq_idx].comp_masks)
       THEN Raise("AssertionError")
       ELSE Goto("match_tra")
    /\ UNCHANGED <<traj, segm, graph_operations, results>>
    /\ OthersUnchanged

\* evaluate_sequence: traj
MatchTra ==
    /\ pc = "match_tra"
    /\ traj' = IF NeedsTraj(seq_metrics)
               THEN match_computed_to_reference_masks(
                        dirs[seq_idx].ref_tra_masks, dirs[seq_idx].comp_masks)
               ELSE EmptyDict
    /\ Goto("match_seg")
    /\ UNCHANGED <<segm, graph_operations, results>>
    /\ OthersUnchanged

\* evaluate_sequence: segm, on the result masks the SEG files' names select
MatchSeg ==
    /\ pc = "match_seg"
    /\ LET ref_seg == dirs[seq_idx].ref_seg_masks
           comp == dirs[seq_idx].comp_masks
       IN  IF "SEG" \notin Range(seq_metrics)
           THEN Goto("graph") /\ UNCHANGED segm
           ELSE IF \E i \in DOMAIN ref_seg : ref_seg[i].frame >= Len(comp)
           THEN Raise("IndexError") /\ UNCHANGED segm
           ELSE /\ segm' = match_computed_to_reference_masks(
                               [i \in DOMAIN ref_seg |-> ref_seg[i].mask],
                               [i \in DOMAIN ref_seg |-> comp[ref_seg[i].frame + 1]])
                /\ Goto("graph")
    /\ UNCHANGED <<traj, graph_operations, results>>
    /\ OthersUnchanged

\* evaluate_sequence: graph_operations
CountOperations ==
    /\ pc = "graph"
    /\ IF ~("DET" \in Range(seq_metrics) \/ "TRA" \in Range(seq_metrics))
       THEN Goto("Valid") /\ UNCHANGED graph_operations
       ELSE IF ~({"labels_ref", "labels_comp", "mapped_ref", "mapped_comp"}
                    \subseteq DOMAIN traj)
       THEN Raise("KeyError") /\ UNCHANGED graph_operations
       ELSE LET counted == count_acyclic_graph_correction_operations(
                               dirs[seq_idx].ref_tracks, dirs[seq_idx].comp_tracks,
                               traj.labels_ref, traj.labels_comp)
            IN  IF counted.kind # "return"
                THEN Raise(counted.kind) /\ UNCHANGED graph_operations
                ELSE graph_operations' = counted.value /\ Goto("Valid")
    /\ UNCHANGED <<traj, segm, results>>
    /\ OthersUnchanged

\* results["Valid"] = valid(comp_masks, comp_tracks, traj["labels_comp"])
MetricValid ==
    /\ pc = "Valid"
    /\ IF "Valid" \notin Range(seq_metrics)
       THEN Goto("DET") /\ UNCHANGED results
       ELSE IF "labels_comp" \notin DOMAIN traj
       THEN Raise("KeyError") /\ UNCHANGED results
       ELSE LET r == valid(dirs[seq_idx].comp_masks, dirs[seq_idx].comp_tracks,
                           traj.labels_comp)
            IN  IF r.kind # "return"
                THEN Raise(r.kind) /\ UNCHANGED results
                ELSE results' = ("Valid" :> r.is_valid) @@ results /\ Goto("DET")
    /\ UNCHANGED <<traj, segm, graph_operations>>
    /\ OthersUnchanged

\* results["DET"] = det(**graph_operations)
MetricDet ==
    /\ pc = "DET"
    /\ IF "DET" \notin Range(seq_metrics)
       THEN Goto("SEG") /\ UNCHANGED results
       ELSE results' = ("DET" :> Score) @@ results /\ Goto("SEG")
    /\ UNCHANGED <<traj, segm, graph_operations>>
    /\ OthersUnchanged

\* results["SEG"], _, _ = seg(segm["labels_ref"], segm["ious"])
MetricSeg ==
    /\ pc = "SEG"
    /\ IF "SEG" \notin Range(seq_metrics)
       THEN Goto("TRA") /\ UNCHANGED results
       ELSE IF ~({"labels_ref", "ious"} \subseteq DOMAIN segm)
       THEN Raise("KeyError") /\ UNCHANGED results
       ELSE LET r == seg(segm.labels_ref, segm.ious)
            IN  IF r.kind # "return"
                THEN Raise(r.kind) /\ UNCHANGED results
                ELSE results' = ("SEG" :> r.seg_measure) @@ results /\ Goto("TRA")
    /\ UNCHANGED <<traj, segm, graph_operations>>
    /\ OthersUnchanged

\* results["TRA"] = tra(**graph_operations)
MetricTra ==
    /\ pc = "TRA"
    /\ IF "TRA" \notin Range(seq_metrics)
       THEN Goto("CT") /\ UNCHANGED results
       ELSE results' = ("TRA" :> Score) @@ results /\ Goto("CT")
    /\ UNCHANGED <<traj, segm, graph_operations>>
    /\ OthersUnchanged

\* results["CT"] = ct(comp_tracks, ref_tracks, traj["labels_ref"], ...)
MetricCt ==
    /\ pc = "CT"
    /\ IF "CT" \notin Range(seq_metrics)
       THEN Goto("TF") /\ UNCHANGED results
       ELSE IF ~({"labels_ref", "mapped_ref", "mapped_comp"} \subseteq DOMAIN traj)
       THEN Raise("KeyError") /\ UNCHANGED results
       ELSE results' = ("CT" :> Score) @@ results /\ Goto("TF")
    /\ UNCHANGED <<traj, segm, graph_operations>>
    /\ OthersUnchanged

\* results["TF"] = tf(ref_tracks, traj["labels_ref"], ...)
MetricTf ==
    /\ pc = "TF"
    /\ IF "TF" \notin Range(seq_metrics)
       THEN Goto("BC") /\ UNCHANGED results
       ELSE IF ~({"labels_ref", "mapped_ref", "mapped_comp"} \subseteq DOMAIN traj)
       THEN Raise("KeyError") /\ UNCHANGED results
       ELSE results' = ("TF" :> Score) @@ results /\ Goto("BC")
    /\ UNCHANGED <<traj, segm, graph_operations>>
    /\ OthersUnchanged

\* for i in range(6): results[f"BC({i})"] = bc(..., i=i)
MetricBc ==
    /\ pc = "BC"
    /\ IF "BC" \notin Range(seq_metrics)
       THEN Goto("CCA") /\ UNCHANGED results
       ELSE IF ~({"mapped_ref", "mapped_comp"} \subseteq DOMAIN traj)
       THEN Raise("KeyError") /\ UNCHANGED results
       ELSE /\ results' = [k \in {BCNames[i + 1] : i \in 0..(BCRange - 1)} |-> Score]
                              @@ results
            /\ Goto("CCA")
    /\ UNCHANGED <<traj, segm, graph_operations>>
    /\ OthersUnchanged

\* results["CCA"] = cca(comp_tracks, ref_tracks)
MetricCca ==
    /\ pc = "CCA"
    /\ IF "CCA" \notin Range(seq_metrics)
       THEN Goto("return") /\ UNCHANGED results
       ELSE results' = ("CCA" :> Score) @@ results /\ Goto("return")
    /\ UNCHANGED <<traj, segm, graph_operations>>
    /\ OthersUnchanged

\* -------------------------------------------------------- specifications
BioNext == BioCall

SegNext == SegCall

ValidNext == ValidCall

MatchNext == PoolSubmit \/ WorkerFinish \/ PoolReturn \/ Sequential \/ MatchReturn

SeqNext ==
    \/ Main \/ MainSequenceReturns
    \/ EvalEnter \/ ReadAndAssert \/ MatchTra \/ MatchSeg \/ CountOperations
    \/ MetricValid \/ MetricDet \/ MetricSeg \/ MetricTra \/ MetricCt
    \/ MetricTf \/ MetricBc \/ MetricCca

AllNext ==
    \/ Main \/ EvaluateAllLoop \/ EvaluateAllAppend
    \/ EvalEnter \/ ReadAndAssert \/ MatchTra \/ MatchSeg \/ CountOperations
    \/ MetricValid \/ MetricDet \/ MetricSeg \/ MetricTra \/ MetricCt
    \/ MetricTf \/ MetricBc \/ MetricCca

\* bio called on any four sub-metrics
InitBio == BioInit /\ SegIdle /\ ValidIdle /\ MatchIdle /\ EvalIdle

SpecBio == InitBio /\ [][BioNext]_vars

\* seg called on any output of the sequence matcher
InitSeg == SegInit /\ BioIdle /\ ValidIdle /\ MatchIdle /\ EvalIdle

SpecSeg == InitSeg /\ [][SegNext]_vars

\* valid called on any track table
InitValid == ValidInit /\ BioIdle /\ SegIdle /\ MatchIdle /\ EvalIdle

SpecValid == InitValid /\ [][ValidNext]_vars

\* match_computed_to_reference_masks called on any two mask sequences
InitMatch == MatchInit /\ BioIdle /\ SegIdle /\ ValidIdle /\ EvalIdle

SpecMatch == InitMatch /\ [][MatchNext]_vars

\* the script run on one sequence
InitSeq == SeqInit /\ BioIdle /\ SegIdle /\ ValidIdle /\ MatchIdle

SpecSeq == InitSeq /\ [][SeqNext]_vars

\* the script run on a directory of sequences
InitAll == AllInit /\ BioIdle /\ SegIdle /\ ValidIdle /\ MatchIdle

SpecAll == InitAll /\ [][AllNext]_vars

Init ==
    \/ InitBio
    \/ InitSeg
    \/ InitValid
    \/ InitMatch
    \/ InitSeq
    \/ InitAll

Next == BioNext \/ SegNext \/ ValidNext \/ MatchNext \/ SeqNext \/ AllNext

Spec == Init /\ [][Next]_vars

\* ---------------------------------------------------------------- claims
\* A rational <<n, d>> equals <<m, e>> (d, e > 0).
RatEq(a, b) == a[1] * b[2] = b[1] * a[2]

RECURSIVE SumOver(_, _)
SumOver(S, f) ==
    IF S = {} THEN 0
    ELSE LET x == CHOOSE y \in S : TRUE IN f[x] + SumOver(S \ {x}, f)

BioArgs == <<ct, tf, bc, cca>>

\* The positions of the sub-metrics that are not None.
Available == {i \in 1..4 : BioArgs[i] # None}

SumAvailable == SumOver(Available, [i \in Available |-> BioArgs[i][1]])

\* C1: when at least one of ct, tf, bc, cca is not None, bio returns the sum
\* of the values that are not None divided by their number.
C1_BioIsMeanOfAvailable ==
    (bio_score # NotCalled /\ Available # {}) =>
        /\ bio_score.kind = "return"
        /\ RatEq(<<bio_score.num, bio_score.den>>,
                 <<SumAvailable, Cardinality(Available)>>)

\* bio has returned for an input with exactly two sub-metrics available.
C1_Witness ==
    /\ bio_score # NotCalled
    /\ bio_score.kind = "return"
    /\ Cardinality(Available) = 2
    /\ SumAvailable > 0

\* C2: when ct, tf, bc and cca are all None, bio returns a sentinel and does
\* not raise an arithmetic error.
C2_AllNoneReturnsSentinel ==
    (bio_score # NotCalled /\ Available = {}) => bio_score.kind = "return"

\* The number of reference label instances over all frames.
TotalRef == SumOver(DOMAIN labels_ref, [f \in DOMAIN labels_ref |-> Len(labels_ref[f])])

\* The number of IoU values over all frames, and their sum.
TotalMatched ==
    SumOver(DOMAIN intersection_over_unions,
            [f \in DOMAIN intersection_over_unions |->
                Len(intersection_over_unions[f])])

TotalIoU ==
    SumOver(DOMAIN intersection_over_unions,
            [f \in DOMAIN intersection_over_unions |->
                SumSeq(intersection_over_unions[f])])

\* C3: for every input seg returns the sum of all IoU values divided by
\* max(1, number of reference label instances), and returns 0 without an
\* error when there is no reference label instance.
C3_SegScore ==
    seg_ret # NotCalled =>
        /\ seg_ret.kind = "return"
        /\ RatEq(seg_ret.seg_measure, <<TotalIoU, Max(1, TotalRef)>>)
        /\ (TotalRef = 0 => seg_ret.seg_measure[1] = 0)

\* Every reference label instance has an IoU value, and it is 1.
PerfectMatch ==
    \A f \in DOMAIN labels_ref :
        /\ Len(intersection_over_unions[f]) = Len(labels_ref[f])
        /\ \A i \in DOMAIN intersection_over_unions[f] :
              intersection_over_unions[f][i] = IoUScale

\* C8: for IoU values in [0,1], at most one per reference label, seg returns
\* (score, true_positives, false_negatives) with 0 <= score <= 1,
\* true_positives the number of IoU values, false_negatives >= 0,
\* true_positives + false_negatives the number of reference label
\* instances, and score = 1 with no false negative on a perfect match.
C8_SegTriple ==
    seg_ret # NotCalled =>
        /\ seg_ret.kind = "return"
        /\ 0 <= seg_ret.seg_measure[1]
        /\ seg_ret.seg_measure[1] <= seg_ret.seg_measure[2] * IoUScale
        /\ seg_ret.true_positives = TotalMatched
        /\ seg_ret.false_negatives >= 0
        /\ seg_ret.true_positives + seg_ret.false_negatives = TotalRef
        /\ (PerfectMatch =>
               /\ seg_ret.seg_measure[1] = seg_ret.seg_measure[2] * IoUScale
               /\ seg_ret.false_negatives = 0)

\* C9's precondition: every non-zero parent label is the label of exactly one
\* row, and every span lies inside the mask sequence.
C9_Pre ==
    /\ \A i \in DOMAIN tracks :
          Parent(tracks[i]) # 0 =>
              Cardinality({j \in DOMAIN tracks : Label(tracks[j]) = Parent(tracks[i])}) = 1
    /\ \A i \in DOMAIN tracks :
          0 <= Birth(tracks[i]) /\ End(tracks[i]) < Len(masks)

\* The four conditions under which C9 says the result is 0.
C9_Zero ==
    \/ \E i \in DOMAIN tracks : Parent(tracks[i]) < 0
    \/ \E i, j \in DOMAIN tracks : i # j /\ Label(tracks[i]) = Label(tracks[j])
    \/ \E i, j \in DOMAIN tracks :
          /\ Parent(tracks[i]) # 0
          /\ Label(tracks[j]) = Parent(tracks[i])
          /\ End(tracks[j]) >= Birth(tracks[i])
    \/ \E k \in DOMAIN masks :
          {l \in Range(labels_in_frames[k]) : l # 0}
              # {Label(tracks[i]) : i \in {j \in DOMAIN tracks :
                      Birth(tracks[j]) <= k - 1 /\ k - 1 <= End(tracks[j])}}

\* C9: for every track table that meets the precondition valid returns 0 if
\* and only if a parent label is negative, two rows share a label, a parent
\* ends at or after its child's birth, or in some frame the labels of the
\* mask differ from the labels of the tracks alive there; otherwise it
\* returns 1, and unused labels and empty frames only warn.
C9_ValidResult ==
    (valid_ret # NotCalled /\ C9_Pre) =>
        /\ valid_ret.kind = "return"
        /\ valid_ret.is_valid = (IF C9_Zero THEN 0 ELSE 1)

\* The same for the tables that have at least one row.
Valid_NonEmptyTable ==
    (valid_ret # NotCalled /\ C9_Pre /\ tracks # <<>>) =>
        /\ valid_ret.kind = "return"
        /\ valid_ret.is_valid = (IF C9_Zero THEN 0 ELSE 1)

\* The output of the per-frame matcher for every frame pair, field by field.
PerFrame(field) ==
    [i \in 1..Len(ref_masks) |-> match_tracks(ref_masks[i], comp_masks[i])[field]]

\* C5: for N frame pairs the matcher returns five lists of length N whose
\* i-th entries are the per-frame matcher's output for pair i, with the pool
\* (workers finishing in any order) as without it.
C5_FrameOrderPreserved ==
    (match_pc = "done" /\ Len(ref_masks) = Len(comp_masks)) =>
        /\ match_ret.kind = "return"
        /\ match_ret.value.labels_ref = PerFrame(1)
        /\ match_ret.value.labels_comp = PerFrame(2)
        /\ match_ret.value.mapped_ref = PerFrame(3)
        /\ match_ret.value.mapped_comp = PerFrame(4)
        /\ match_ret.value.ious = PerFrame(5)

\* The pool has returned after its workers finished the frames out of order,
\* on frame pairs whose outputs differ.
C5_Witness ==
    /\ match_pc = "done"
    /\ multiprocessing
    /\ Len(ref_masks) = Len(comp_masks)
    /\ Len(arrived) >= 2
    /\ arrived[1][1] > arrived[2][1]
    /\ arrived[1][2] # arrived[2][2]
    /\ Len(match_ret.value.ious) = Len(ref_masks)

\* C4: the sequence matcher fails whenever its two sequences differ in
\* length, and never returns a result built from their common prefix.
C4_FailsOnLengthMismatch ==
    (match_pc = "done" /\ Len(ref_masks) # Len(comp_masks)) =>
        match_ret.kind # "return"

\* The metrics the command line requests: all of them when no flag is given.
Requested == IF args.flags = {} THEN Range(MetricOrder) ELSE args.flags

\* evaluate_sequence is past the statement that computes traj.
PastMatching ==
    pc \in {"match_seg", "graph", "Valid", "DET", "SEG", "TRA", "CT", "TF", "BC",
            "CCA", "return"}

\* The keys C10 expects in the results.
ExpectedKeys ==
    (Requested \cap {"Valid", "DET", "SEG", "TRA", "CT", "TF", "CCA"})
        \cup (IF "BC" \in Requested
              THEN {"BC(0)", "BC(1)", "BC(2)", "BC(3)", "BC(4)", "BC(5)"}
              ELSE {})

\* C10: evaluate_sequence never reads a field of traj that was not computed;
\* the matching is skipped exactly when only CCA is requested; the graph
\* correction operations are counted only when DET or TRA is requested and
\* only after the matching; and the results returned hold one entry per
\* requested metric, BC(0)..BC(5) for BC, and no other entry.
C10_MatchingBeforeUse ==
    /\ error # Some("KeyError")
    /\ PastMatching => ((DOMAIN traj = {}) <=> (Requested = {"CCA"}))
    /\ DOMAIN graph_operations # {} =>
          /\ "DET" \in Requested \/ "TRA" \in Requested
          /\ DOMAIN traj # {}
    /\ main_pc = "returned" => DOMAIN res[1] = ExpectedKeys

\* A run that requested CT, BC and CCA has returned its eight entries.
C10_Witness ==
    /\ main_pc = "returned"
    /\ args.flags = {"CT", "BC", "CCA"}
    /\ DOMAIN traj # {}
    /\ Cardinality(DOMAIN res[1]) = 8

\* man_track.txt of the sequence under evaluation holds a label twice.
RefHasDuplicate ==
    /\ seq_idx \in DOMAIN dirs
    /\ \E i, j \in DOMAIN dirs[seq_idx].ref_tracks :
          /\ i # j
          /\ Label(dirs[seq_idx].ref_tracks[i]) = Label(dirs[seq_idx].ref_tracks[j])

\* C6: a duplicate label in the reference track table raises an error, and
\* raises it before any metric or graph correction count is computed.
C6_DuplicateRefRaises ==
    RefHasDuplicate =>
        /\ DOMAIN results = {}
        /\ DOMAIN graph_operations = {}
        /\ main_pc # "returned"

\* GoodDir is evaluated without an error, whatever the metrics requested.
Eval_GoodDirNeverRaises ==
    (seq_idx \in DOMAIN dirs /\ dirs[seq_idx] = GoodDir) => error = None

\* C7: in a batch, an error in one sequence stops that sequence only: every
\* other sequence is evaluated and its results are returned.  Stated for the
\* sequences that raise no error themselves.
C7_OtherSequencesEvaluated ==
    main_pc \in {"returned", "raised"} =>
        \A i \in DOMAIN dirs :
            dirs[i] = GoodDir =>
                /\ res # None
                /\ \E k \in DOMAIN res[1] : res[1][k][1] = dirs[i].name

====
